---- MODULE Spec2Model ----
(***************************************************************************)
(* State-machine model of the darezone-server request handlers and of the *)
(* remote store they read and write.  A handler is split at its store     *)
(* calls, so that concurrent requests interleave where the service lets   *)
(* them; the stored procedures run as single transactions.                *)
(***************************************************************************)
EXTENDS Integers, FiniteSets, Sequences, TLC

\* ------------------------------------------------------------------ bounds
MaxDay == 4
MaxCheckinRows == 3
MaxNotifications == 2
MaxChallenges == 2
MaxHabitIds == 2
MaxTargetList == 2
MaxFriendshipRows == 2
MaxUpdates == 1
MaxEditDay == 2

\* ------------------------------------------------------- program constants
BasePoints == 10
StreakPoints == 20
DefaultHitchCount == 2
MaxTargets == 10
MaxAttempts == 10

\* -------------------------------------------------------------- value sets
Users == {"u1", "u2", "u3"}
Procs == {"p1", "p2"}
ChallengeIds == 1 .. MaxChallenges
Habits == {"h1", "h2"}
HabitIds == Habits \cup {"hx"}
None == "None"

VARIABLES
    today,
    challenges,
    challenge_habits,
    challenge_members,
    user_profiles,
    check_ins,
    checkin_seq,
    hitch_log,
    notifications,
    friendships,
    friendship_seq,
    pc,
    req,
    reply

store == <<today, challenges, challenge_habits, challenge_members,
           user_profiles, check_ins, checkin_seq, hitch_log, notifications,
           friendships, friendship_seq>>

vars == <<today, challenges, challenge_habits, challenge_members,
          user_profiles, check_ins, checkin_seq, hitch_log, notifications,
          friendships, friendship_seq, pc, req, reply>>

\* ---------------------------------------------------------------- helpers
Max(a, b) == IF a >= b THEN a ELSE b

SetMax(S) == CHOOSE x \in S : \A y \in S : y <= x

NoReq == [op |-> "none"]

NoReply == [user |-> None, status |-> 0, detail |-> "none", body |-> None]

\* the HTTP response a caller receives
Respond(u, status, detail, body) ==
    [user |-> u, status |-> status, detail |-> detail, body |-> body]

\* Python truthiness of an Optional[str]
Truthy(v) == v # None /\ v # ""

\* `phrase in str(e).lower()` over the messages the stored procedures raise
MessagePhrases(msg) ==
    CASE msg = "check-in already exists for this habit today" -> {"already exists"}
      [] msg = "user is not an active member of this challenge" ->
             {"not an active member"}
      [] msg = "no hitches remaining" -> {"no hitches remaining"}
      [] msg = "no valid targets" -> {"no valid targets"}
      [] msg = "habit not found" -> {"habit not found"}
      [] OTHER -> {}

Contains(msg, phrase) == phrase \in MessagePhrases(msg)

\* ------------------------------------------------------------------- rows
MemberRows(c, u) ==
    {m \in challenge_members : m.challenge_id = c /\ m.user_id = u}

ActiveMemberRows(c, u) == {m \in MemberRows(c, u) : m.status = "active"}

CheckinRows(c, h, u) ==
    {r \in check_ins : r.challenge_id = c /\ r.habit_id = h /\ r.user_id = u}

CheckinRowsOn(c, h, u, d) == {r \in CheckinRows(c, h, u) : r.checkin_date = d}

NewMember(id, c, u, role) ==
    [id |-> id, challenge_id |-> c, user_id |-> u, role |-> role,
     status |-> "active", hitch_count |-> DefaultHitchCount,
     current_streak |-> 0, longest_streak |-> 0,
     total_checkins |-> 0, points_earned |-> 0]

NewProfile ==
    [current_streak |-> 0, longest_streak |-> 0,
     total_check_ins |-> 0, points |-> 0]

\* ------------------------------------------------------------------- Init
InitChallenges ==
    {[id |-> 1, invite_code |-> "ABC234", status |-> "pending",
      created_by |-> "u1", max_members |-> 2, member_count |-> 2]}

InitChallengeHabits ==
    {[challenge_id |-> 1, habit_id |-> "h1", display_order |-> 0],
     [challenge_id |-> 1, habit_id |-> "h2", display_order |-> 1]}

InitChallengeIds == {ch.id : ch \in InitChallenges}

InitMembers ==
    {NewMember(1, 1, "u1", "creator"), NewMember(2, 1, "u2", "member")}

Init ==
    /\ today = 1
    /\ challenges = InitChallenges
    /\ challenge_habits = InitChallengeHabits
    /\ challenge_members = InitMembers
    /\ user_profiles = [u \in Users |-> NewProfile]
    /\ check_ins = {}
    /\ checkin_seq = 0
    /\ hitch_log = {}
    /\ notifications = {}
    /\ friendships = {}
    /\ friendship_seq = 0
    /\ pc = [p \in Procs |-> "idle"]
    /\ req = [p \in Procs |-> NoReq]
    /\ reply = NoReply

\* ------------------------------------------------------------- the clock
NextDay ==
    /\ today < MaxDay
    /\ today' = today + 1
    /\ UNCHANGED <<challenges, challenge_habits, challenge_members,
                   user_profiles, check_ins, checkin_seq, hitch_log,
                   notifications, pc, req, reply,
                   friendships, friendship_seq>>

\* ------------------------------------- create_checkin_with_streak_update
LastCheckinDate(c, h, u) ==
    IF CheckinRows(c, h, u) = {} THEN 0
    ELSE SetMax({r.checkin_date : r \in CheckinRows(c, h, u)})

RpcCheckinError(c, h, u) ==
    IF ActiveMemberRows(c, u) = {}
    THEN "user is not an active member of this challenge"
    ELSE IF CheckinRowsOn(c, h, u, today) # {}
    THEN "check-in already exists for this habit today"
    ELSE "ok"

RpcCheckinStreak(c, h, u) ==
    LET last == LastCheckinDate(c, h, u)
        old == (CHOOSE m \in ActiveMemberRows(c, u) : TRUE).current_streak
        first == last = 0
        broken == ~first /\ today - last > 1
    IN  [new_streak |-> IF first \/ broken THEN 1 ELSE old + 1,
         is_streak_broken |-> broken,
         points_earned |-> IF first \/ broken THEN BasePoints
                           ELSE StreakPoints]

RpcCheckinResult(c, h, u) ==
    LET s == RpcCheckinStreak(c, h, u)
    IN  [checkin_id |-> checkin_seq + 1, new_streak |-> s.new_streak,
         points_earned |-> s.points_earned,
         is_streak_broken |-> s.is_streak_broken]

RpcCheckinMember(m, r) ==
    [m EXCEPT !.current_streak = r.new_streak,
              !.longest_streak = Max(m.longest_streak, r.new_streak),
              !.total_checkins = m.total_checkins + 1,
              !.points_earned = m.points_earned + r.points_earned]

RpcCheckinProfile(pr, r) ==
    [pr EXCEPT !.current_streak = r.new_streak,
               !.longest_streak = Max(pr.longest_streak, r.new_streak),
               !.total_check_ins = pr.total_check_ins + 1,
               !.points = pr.points + r.points_earned]

RpcCheckinApply(c, h, u, ev) ==
    LET r == RpcCheckinResult(c, h, u)
        row == [id |-> r.checkin_id, challenge_id |-> c, habit_id |-> h,
                user_id |-> u, checkin_date |-> today,
                status |-> "completed", photo_url |-> ev.photo_url,
                video_url |-> ev.video_url, caption |-> ev.caption,
                updated_at |-> 0]
    IN  /\ check_ins' = check_ins \cup {row}
        /\ checkin_seq' = checkin_seq + 1
        /\ challenge_members' =
               {IF m \in ActiveMemberRows(c, u) THEN RpcCheckinMember(m, r)
                ELSE m : m \in challenge_members}
        /\ user_profiles' =
               [user_profiles EXCEPT ![u] = RpcCheckinProfile(@, r)]

\* ---------------------------------------------------------- create_checkin
EvidenceInputs ==
    {[photo_url |-> None, video_url |-> None, caption |-> None],
     [photo_url |-> "", video_url |-> "", caption |-> ""],
     [photo_url |-> None, video_url |-> None, caption |-> "cap"],
     [photo_url |-> "url", video_url |-> None, caption |-> ""]}

EvidenceProvided_EmptyStringCounts(ev) ==
    ev.photo_url # None \/ ev.video_url # None \/ ev.caption # None

EvidenceProvided(ev) ==
    Truthy(ev.photo_url) \/ Truthy(ev.video_url) \/ Truthy(ev.caption)

CheckinError_NoForbiddenBranch(msg) ==
    IF Contains(msg, "already exists")
    THEN [status |-> 400,
          detail |-> "You already checked in for this habit today"]
    ELSE [status |-> 500, detail |-> "Failed to create check-in"]

CheckinError(msg) ==
    IF Contains(msg, "already exists")
    THEN [status |-> 400,
          detail |-> "You already checked in for this habit today"]
    ELSE IF Contains(msg, "not an active member")
    THEN [status |-> 403, detail |-> "You are not a member of this challenge"]
    ELSE [status |-> 500, detail |-> "Failed to create check-in"]

CheckinCreateResponse_BrokenFlagDropped(row, rpc_result) ==
    [checkin |-> row,
     new_streak |-> rpc_result.new_streak,
     points_earned |-> rpc_result.points_earned,
     is_streak_broken |-> FALSE]

CheckinCreateResponse_FixedPoints(row, rpc_result) ==
    [checkin |-> row,
     new_streak |-> rpc_result.new_streak,
     points_earned |-> BasePoints,
     is_streak_broken |-> rpc_result.is_streak_broken]

CheckinCreateResponse_StreakAndPointsSwapped(row, rpc_result) ==
    [checkin |-> row,
     new_streak |-> rpc_result.points_earned,
     points_earned |-> rpc_result.new_streak,
     is_streak_broken |-> rpc_result.is_streak_broken]

CheckinCreateResponse(row, rpc_result) ==
    [checkin |-> row,
     new_streak |-> rpc_result.new_streak,
     points_earned |-> rpc_result.points_earned,
     is_streak_broken |-> rpc_result.is_streak_broken]

\* lines 43-70: evidence validation, then the stored procedure
CreateCheckinRpc(p, u, c, h, ev) ==
    /\ pc[p] = "idle"
    /\ checkin_seq < MaxCheckinRows
    /\ UNCHANGED <<today, challenges, challenge_habits, hitch_log,
                   notifications,
                   friendships, friendship_seq>>
    /\ IF ~EvidenceProvided(ev)
       THEN /\ reply' = Respond(u, 400,
                   "At least one evidence (photo/video/caption) required",
                   None)
            /\ UNCHANGED <<challenge_members, user_profiles, check_ins,
                           checkin_seq, pc, req,
                   friendships, friendship_seq>>
       ELSE IF RpcCheckinError(c, h, u) # "ok"
       THEN /\ reply' = Respond(u,
                   CheckinError(RpcCheckinError(c, h, u)).status,
                   CheckinError(RpcCheckinError(c, h, u)).detail, None)
            /\ UNCHANGED <<challenge_members, user_profiles, check_ins,
                           checkin_seq, pc, req,
                   friendships, friendship_seq>>
       ELSE /\ RpcCheckinApply(c, h, u, ev)
            /\ pc' = [pc EXCEPT ![p] = "checkin_readback"]
            /\ req' = [req EXCEPT ![p] =
                   [op |-> "create_checkin", user |-> u,
                    challenge_id |-> c, habit_id |-> h,
                    rpc_result |-> RpcCheckinResult(c, h, u)]]
            /\ UNCHANGED reply

\* lines 72-101: read the created row back and build the response; the
\* select raises, or returns no row, when the store call fails or the row is
\* gone
CreateCheckinReadBack(p, store_ok) ==
    /\ pc[p] = "checkin_readback"
    /\ LET rows == {r \in check_ins : r.id = req[p].rpc_result.checkin_id}
       IN  IF store_ok /\ rows # {}
           THEN reply' = Respond(req[p].user, 201, "created",
                    CheckinCreateResponse(CHOOSE r \in rows : TRUE,
                                          req[p].rpc_result))
           ELSE reply' = Respond(req[p].user, 500,
                                 "Failed to create check-in", None)
    /\ pc' = [pc EXCEPT ![p] = "idle"]
    /\ req' = [req EXCEPT ![p] = NoReq]
    /\ UNCHANGED store

\* ---------------------------------------------------------- update_checkin
CheckinIds == 1 .. MaxCheckinRows

\* CheckinUpdate.caption: absent, or a new text
CaptionInputs == {None, "edited"}

\* lines 292-296: the fields the handler collects for the update
UpdateData(caption) ==
    (IF caption # None THEN {"caption"} ELSE {}) \cup {"updated_at"}

UpdateCheckinSelect_NoSameDayCheck(p, u, id, caption, single_raises) ==
    /\ pc[p] = "idle"
    /\ \A r \in check_ins : r.id = id => r.updated_at < MaxUpdates
    /\ UNCHANGED store
    /\ LET rows == {r \in check_ins : r.id = id}
           checkin_data == CHOOSE r \in rows : TRUE
       IN  IF rows = {}
           THEN /\ reply' = IF single_raises
                            THEN Respond(u, 500,
                                     "Failed to update check-in", None)
                            ELSE Respond(u, 404, "Check-in not found", None)
                /\ UNCHANGED <<pc, req>>
           ELSE IF checkin_data.user_id # u
           THEN /\ reply' = Respond(u, 403, "Not your check-in", None)
                /\ UNCHANGED <<pc, req>>
           ELSE IF FALSE
           THEN /\ reply' = Respond(u, 400,
                                "Can only edit check-ins from today", None)
                /\ UNCHANGED <<pc, req>>
           ELSE IF UpdateData(caption) = {}
           THEN /\ reply' = Respond(u, 400,
                                "No fields to update provided", None)
                /\ UNCHANGED <<pc, req>>
           ELSE /\ pc' = [pc EXCEPT ![p] = "update_checkin_write"]
                /\ req' = [req EXCEPT ![p] =
                       [op |-> "update_checkin", user |-> u,
                        checkin_id |-> id, caption |-> caption,
                        update_data |-> UpdateData(caption),
                        today |-> today]]
                /\ UNCHANGED reply

\* lines 262-302: fetch the row, owner check, same-day check, empty-update
\* check
UpdateCheckinSelect(p, u, id, caption, single_raises) ==
    /\ pc[p] = "idle"
    /\ \A r \in check_ins : r.id = id => r.updated_at < MaxUpdates
    /\ UNCHANGED store
    /\ LET rows == {r \in check_ins : r.id = id}
           checkin_data == CHOOSE r \in rows : TRUE
       IN  IF rows = {}
           THEN /\ reply' = IF single_raises
                            THEN Respond(u, 500,
                                     "Failed to update check-in", None)
                            ELSE Respond(u, 404, "Check-in not found", None)
                /\ UNCHANGED <<pc, req>>
           ELSE IF checkin_data.user_id # u
           THEN /\ reply' = Respond(u, 403, "Not your check-in", None)
                /\ UNCHANGED <<pc, req>>
           ELSE IF checkin_data.checkin_date # today
           THEN /\ reply' = Respond(u, 400,
                                "Can only edit check-ins from today", None)
                /\ UNCHANGED <<pc, req>>
           ELSE IF UpdateData(caption) = {}
           THEN /\ reply' = Respond(u, 400,
                                "No fields to update provided", None)
                /\ UNCHANGED <<pc, req>>
           ELSE /\ pc' = [pc EXCEPT ![p] = "update_checkin_write"]
                /\ req' = [req EXCEPT ![p] =
                       [op |-> "update_checkin", user |-> u,
                        checkin_id |-> id, caption |-> caption,
                        update_data |-> UpdateData(caption),
                        today |-> today]]
                /\ UNCHANGED reply

\* lines 304-317: write the collected fields to the row with that id
UpdateCheckinWrite(p, store_ok) ==
    /\ pc[p] = "update_checkin_write"
    /\ LET rows == {r \in check_ins : r.id = req[p].checkin_id}
           Updated(r) ==
               [r EXCEPT !.caption = IF "caption" \in req[p].update_data
                                     THEN req[p].caption ELSE @,
                         !.updated_at = @ + 1]
       IN  IF store_ok /\ rows # {}
           THEN /\ check_ins' = {IF r \in rows THEN Updated(r) ELSE r :
                                     r \in check_ins}
                /\ reply' = Respond(req[p].user, 200, "updated",
                                    Updated(CHOOSE r \in rows : TRUE))
           ELSE /\ UNCHANGED check_ins
                /\ reply' = Respond(req[p].user, 500,
                                    "Failed to update check-in", None)
    /\ pc' = [pc EXCEPT ![p] = "idle"]
    /\ req' = [req EXCEPT ![p] = NoReq]
    /\ UNCHANGED <<today, challenges, challenge_habits, challenge_members,
                   user_profiles, checkin_seq, hitch_log, notifications,
                   friendships, friendship_seq>>

\* ---------------------------------------------------------- delete_checkin
DeleteCheckinSelect_NoOwnerCheck(p, u, id, single_raises) ==
    /\ pc[p] = "idle"
    /\ UNCHANGED store
    /\ LET rows == {r \in check_ins : r.id = id}
           checkin_data == CHOOSE r \in rows : TRUE
       IN  IF rows = {}
           THEN /\ reply' = IF single_raises
                            THEN Respond(u, 500,
                                     "Failed to delete check-in", None)
                            ELSE Respond(u, 404, "Check-in not found", None)
                /\ UNCHANGED <<pc, req>>
           ELSE IF FALSE
           THEN /\ reply' = Respond(u, 403, "Not your check-in", None)
                /\ UNCHANGED <<pc, req>>
           ELSE /\ pc' = [pc EXCEPT ![p] = "delete_checkin_write"]
                /\ req' = [req EXCEPT ![p] =
                       [op |-> "delete_checkin", user |-> u,
                        checkin_id |-> id]]
                /\ UNCHANGED reply

\* lines 345-366: fetch the row, owner check
DeleteCheckinSelect(p, u, id, single_raises) ==
    /\ pc[p] = "idle"
    /\ UNCHANGED store
    /\ LET rows == {r \in check_ins : r.id = id}
           checkin_data == CHOOSE r \in rows : TRUE
       IN  IF rows = {}
           THEN /\ reply' = IF single_raises
                            THEN Respond(u, 500,
                                     "Failed to delete check-in", None)
                            ELSE Respond(u, 404, "Check-in not found", None)
                /\ UNCHANGED <<pc, req>>
           ELSE IF checkin_data.user_id # u
           THEN /\ reply' = Respond(u, 403, "Not your check-in", None)
                /\ UNCHANGED <<pc, req>>
           ELSE /\ pc' = [pc EXCEPT ![p] = "delete_checkin_write"]
                /\ req' = [req EXCEPT ![p] =
                       [op |-> "delete_checkin", user |-> u,
                        checkin_id |-> id]]
                /\ UNCHANGED reply

\* lines 368-375: delete the row with that id, nothing else
DeleteCheckinWrite(p, store_ok) ==
    /\ pc[p] = "delete_checkin_write"
    /\ IF store_ok
       THEN /\ check_ins' = {r \in check_ins : r.id # req[p].checkin_id}
            /\ reply' = Respond(req[p].user, 204, "deleted", None)
       ELSE /\ UNCHANGED check_ins
            /\ reply' = Respond(req[p].user, 500,
                                "Failed to delete check-in", None)
    /\ pc' = [pc EXCEPT ![p] = "idle"]
    /\ req' = [req EXCEPT ![p] = NoReq]
    /\ UNCHANGED <<today, challenges, challenge_habits, challenge_members,
                   user_profiles, checkin_seq, hitch_log, notifications,
                   friendships, friendship_seq>>

\* ---------------------------------------------------------- notifications
NewNotification(user_id, type, data) ==
    [id |-> Cardinality(notifications) + 1, user_id |-> user_id,
     type |-> type, data |-> data]

\* send_member_joined_notification / send_member_left_notification: the
\* insert is inside try/except, a failing insert is logged and dropped
SendMemberNotification(creator_id, type, c, u, insert_ok) ==
    IF insert_ok
    THEN notifications' = notifications \cup
             {NewNotification(creator_id, type,
                              [challenge_id |-> c, user_id |-> u])}
    ELSE UNCHANGED notifications

\* -------------------------------------------------- get_challenge_details
\* the two .single() selects raise unless exactly one row matches
ChallengeDetailsStatus(c, u) ==
    IF Cardinality({ch \in challenges : ch.id = c}) # 1 THEN 500
    ELSE IF Cardinality(MemberRows(c, u)) # 1 THEN 500
    ELSE 200

ChallengeDetailsBody(c, u) ==
    IF ChallengeDetailsStatus(c, u) # 200 THEN None
    ELSE LET ch == CHOOSE x \in challenges : x.id = c
             m == CHOOSE x \in MemberRows(c, u) : TRUE
         IN  [id |-> c, member_count |-> ch.member_count,
              my_role |-> m.role, my_status |-> m.status,
              hitch_count |-> m.hitch_count]

\* -------------------------------------------------------- update_challenge
ChallengeStatuses == {"pending", "active", "completed", "failed", "archived"}

\* ChallengeUpdate: every field optional; of the fields the challenge rows
\* of this model carry, status and max_members (ge=1, so 0 stands for an
\* absent max_members)
NoMaxMembers == 0

ChallengeUpdates ==
    [status : ChallengeStatuses \cup {None}, max_members : {NoMaxMembers, 3}]

\* lines 487-497: the fields the handler collects for the update
UpdateChallengeData(update) ==
    (IF update.status # None THEN {"status"} ELSE {})
        \cup (IF update.max_members # NoMaxMembers THEN {"max_members"}
              ELSE {})

\* lines 463-504: membership and role check, empty-update check
UpdateChallengeSelect(p, u, c, update, single_raises) ==
    /\ pc[p] = "idle"
    /\ UNCHANGED store
    /\ LET rows == MemberRows(c, u)
           role == (CHOOSE m \in rows : TRUE).role
       IN  IF Cardinality(rows) # 1
           THEN /\ reply' = IF rows = {} /\ ~single_raises
                            THEN Respond(u, 403,
                                     "Not a member of this challenge", None)
                            ELSE Respond(u, 500,
                                     "Failed to update challenge", None)
                /\ UNCHANGED <<pc, req>>
           ELSE IF role \notin {"creator", "admin"}
           THEN /\ reply' = Respond(u, 403,
                         "Only creator or admin can update challenge", None)
                /\ UNCHANGED <<pc, req>>
           ELSE IF UpdateChallengeData(update) = {}
           THEN /\ reply' = Respond(u, 400,
                                "No fields to update provided", None)
                /\ UNCHANGED <<pc, req>>
           ELSE /\ pc' = [pc EXCEPT ![p] = "update_challenge_write"]
                /\ req' = [req EXCEPT ![p] =
                       [op |-> "update_challenge", user |-> u,
                        challenge_id |-> c, update |-> update]]
                /\ UNCHANGED reply

\* lines 506-518: write the collected fields to the challenge row
UpdateChallengeWrite(p, store_ok) ==
    /\ pc[p] = "update_challenge_write"
    /\ LET rows == {ch \in challenges : ch.id = req[p].challenge_id}
           update == req[p].update
           Updated(ch) ==
               [ch EXCEPT !.status = IF update.status # None
                                     THEN update.status ELSE @,
                          !.max_members = IF update.max_members # NoMaxMembers
                                          THEN update.max_members ELSE @]
       IN  IF store_ok /\ rows # {}
           THEN /\ challenges' = {IF ch \in rows THEN Updated(ch) ELSE ch :
                                      ch \in challenges}
                /\ pc' = [pc EXCEPT ![p] = "update_challenge_details"]
                /\ UNCHANGED <<req, reply>>
           ELSE /\ reply' = Respond(req[p].user, 500,
                                    "Failed to update challenge", None)
                /\ pc' = [pc EXCEPT ![p] = "idle"]
                /\ req' = [req EXCEPT ![p] = NoReq]
                /\ UNCHANGED challenges
    /\ UNCHANGED <<today, challenge_habits, challenge_members,
                   user_profiles, check_ins, checkin_seq, hitch_log,
                   notifications, friendships, friendship_seq>>

\* line 520: return the challenge details
UpdateChallengeRespond(p) ==
    /\ pc[p] = "update_challenge_details"
    /\ reply' =
           IF ChallengeDetailsStatus(req[p].challenge_id, req[p].user) = 200
           THEN Respond(req[p].user, 200, "challenge updated",
                    ChallengeDetailsBody(req[p].challenge_id, req[p].user))
           ELSE Respond(req[p].user, 500, "Failed to update challenge", None)
    /\ pc' = [pc EXCEPT ![p] = "idle"]
    /\ req' = [req EXCEPT ![p] = NoReq]
    /\ UNCHANGED store

\* --------------------------------------------------------- join_challenge
InviteCodes == {"ABC234", "ZZZZZZ"}

\* lines 271-285: find the challenge by invite code
JoinSelectChallenge(p, u, code, single_raises) ==
    /\ pc[p] = "idle"
    /\ Cardinality(notifications) < MaxNotifications
    /\ LET rows == {ch \in challenges : ch.invite_code = code}
       IN  IF Cardinality(rows) = 1
           THEN /\ pc' = [pc EXCEPT ![p] = "join_existing"]
                /\ req' = [req EXCEPT ![p] =
                       [op |-> "join_challenge", user |-> u,
                        challenge |-> CHOOSE ch \in rows : TRUE]]
                /\ UNCHANGED reply
           ELSE /\ reply' = IF rows = {} /\ ~single_raises
                            THEN Respond(u, 404, "Invalid invite code", None)
                            ELSE Respond(u, 500,
                                         "Failed to join challenge", None)
                /\ UNCHANGED <<pc, req>>
    /\ UNCHANGED store

JoinCheckExisting_RejoinKeepsHitches(p) ==
    /\ pc[p] = "join_existing"
    /\ LET u == req[p].user
           ch == req[p].challenge
           existing == MemberRows(ch.id, u)
           first == CHOOSE m \in existing :
                        \A o \in existing : m.id <= o.id
       IN  IF existing # {} /\ first.status = "active"
           THEN /\ reply' = Respond(u, 400,
                                "Already a member of this challenge", None)
                /\ pc' = [pc EXCEPT ![p] = "idle"]
                /\ req' = [req EXCEPT ![p] = NoReq]
                /\ UNCHANGED challenge_members
           ELSE IF existing # {} /\ first.status = "left"
           THEN /\ challenge_members' =
                       {IF m.id = first.id
                        THEN [m EXCEPT !.status = "active"]
                        ELSE m : m \in challenge_members}
                /\ pc' = [pc EXCEPT ![p] = "join_details"]
                /\ req' = [req EXCEPT ![p] =
                       [op |-> "join_challenge", user |-> u,
                        challenge |-> ch, notify |-> FALSE]]
                /\ UNCHANGED reply
           ELSE IF ch.member_count >= ch.max_members
           THEN /\ reply' = Respond(u, 400, "Challenge is full", None)
                /\ pc' = [pc EXCEPT ![p] = "idle"]
                /\ req' = [req EXCEPT ![p] = NoReq]
                /\ UNCHANGED challenge_members
           ELSE /\ pc' = [pc EXCEPT ![p] = "join_insert"]
                /\ UNCHANGED <<challenge_members, req, reply>>
    /\ UNCHANGED <<today, challenges, challenge_habits, user_profiles,
                   check_ins, checkin_seq, hitch_log, notifications,
                   friendships, friendship_seq>>

\* lines 287-318: existing membership, rejoin, member limit
JoinCheckExisting(p) ==
    /\ pc[p] = "join_existing"
    /\ LET u == req[p].user
           ch == req[p].challenge
           existing == MemberRows(ch.id, u)
           first == CHOOSE m \in existing :
                        \A o \in existing : m.id <= o.id
       IN  IF existing # {} /\ first.status = "active"
           THEN /\ reply' = Respond(u, 400,
                                "Already a member of this challenge", None)
                /\ pc' = [pc EXCEPT ![p] = "idle"]
                /\ req' = [req EXCEPT ![p] = NoReq]
                /\ UNCHANGED challenge_members
           ELSE IF existing # {} /\ first.status = "left"
           THEN /\ challenge_members' =
                       {IF m.id = first.id
                        THEN [m EXCEPT !.status = "active",
                                       !.hitch_count = DefaultHitchCount]
                        ELSE m : m \in challenge_members}
                /\ pc' = [pc EXCEPT ![p] = "join_details"]
                /\ req' = [req EXCEPT ![p] =
                       [op |-> "join_challenge", user |-> u,
                        challenge |-> ch, notify |-> FALSE]]
                /\ UNCHANGED reply
           ELSE IF ch.member_count >= ch.max_members
           THEN /\ reply' = Respond(u, 400, "Challenge is full", None)
                /\ pc' = [pc EXCEPT ![p] = "idle"]
                /\ req' = [req EXCEPT ![p] = NoReq]
                /\ UNCHANGED challenge_members
           ELSE /\ pc' = [pc EXCEPT ![p] = "join_insert"]
                /\ UNCHANGED <<challenge_members, req, reply>>
    /\ UNCHANGED <<today, challenges, challenge_habits, user_profiles,
                   check_ins, checkin_seq, hitch_log, notifications,
                   friendships, friendship_seq>>

\* lines 320-329: add the member row
JoinInsertMember(p) ==
    /\ pc[p] = "join_insert"
    /\ challenge_members' = challenge_members \cup
           {NewMember(Cardinality(challenge_members) + 1,
                      req[p].challenge.id, req[p].user, "member")}
    /\ pc' = [pc EXCEPT ![p] = "join_count"]
    /\ UNCHANGED <<today, challenges, challenge_habits, user_profiles,
                   check_ins, checkin_seq, hitch_log, notifications,
                   req, reply,
                   friendships, friendship_seq>>

JoinUpdateCount_CountKept(p) ==
    /\ pc[p] = "join_count"
    /\ challenges' =
           {IF ch.id = req[p].challenge.id
            THEN [ch EXCEPT !.member_count = req[p].challenge.member_count]
            ELSE ch : ch \in challenges}
    /\ pc' = [pc EXCEPT ![p] = "join_details"]
    /\ req' = [req EXCEPT ![p] =
           [op |-> "join_challenge", user |-> req[p].user,
            challenge |-> req[p].challenge, notify |-> TRUE]]
    /\ UNCHANGED <<today, challenge_habits, challenge_members,
                   user_profiles, check_ins, checkin_seq, hitch_log,
                   notifications, reply,
                   friendships, friendship_seq>>

\* lines 331-335: write back the member count read at the start, plus one
JoinUpdateCount(p) ==
    /\ pc[p] = "join_count"
    /\ challenges' =
           {IF ch.id = req[p].challenge.id
            THEN [ch EXCEPT !.member_count = req[p].challenge.member_count + 1]
            ELSE ch : ch \in challenges}
    /\ pc' = [pc EXCEPT ![p] = "join_details"]
    /\ req' = [req EXCEPT ![p] =
           [op |-> "join_challenge", user |-> req[p].user,
            challenge |-> req[p].challenge, notify |-> TRUE]]
    /\ UNCHANGED <<today, challenge_habits, challenge_members,
                   user_profiles, check_ins, checkin_seq, hitch_log,
                   notifications, reply,
                   friendships, friendship_seq>>

\* lines 337-344 (309-311 on rejoin): notify the creator, return the details
JoinNotifyRespond(p, insert_ok) ==
    /\ pc[p] = "join_details"
    /\ IF req[p].notify
       THEN SendMemberNotification(req[p].challenge.created_by,
                "member_joined", req[p].challenge.id, req[p].user, insert_ok)
       ELSE UNCHANGED notifications
    /\ reply' =
           IF ChallengeDetailsStatus(req[p].challenge.id, req[p].user) = 200
           THEN Respond(req[p].user, 200, "joined",
                    ChallengeDetailsBody(req[p].challenge.id, req[p].user))
           ELSE Respond(req[p].user, 500, "Failed to join challenge", None)
    /\ pc' = [pc EXCEPT ![p] = "idle"]
    /\ req' = [req EXCEPT ![p] = NoReq]
    /\ UNCHANGED <<today, challenges, challenge_habits, challenge_members,
                   user_profiles, check_ins, checkin_seq, hitch_log,
                   friendships, friendship_seq>>

\* -------------------------------------------------------- leave_challenge
\* lines 375-405: membership lookup, creator and already-left checks
LeaveSelectMembership(p, u, c, single_raises) ==
    /\ pc[p] = "idle"
    /\ Cardinality(notifications) < MaxNotifications
    /\ LET rows == MemberRows(c, u)
           m == CHOOSE x \in rows : TRUE
       IN  IF Cardinality(rows) # 1
           THEN /\ reply' = IF rows = {} /\ ~single_raises
                            THEN Respond(u, 404,
                                     "Not a member of this challenge", None)
                            ELSE Respond(u, 500,
                                     "Failed to leave challenge", None)
                /\ UNCHANGED <<pc, req>>
           ELSE IF m.role = "creator"
           THEN /\ reply' = Respond(u, 400,
                                    "Creator cannot leave challenge", None)
                /\ UNCHANGED <<pc, req>>
           ELSE IF m.status = "left"
           THEN /\ reply' = Respond(u, 400, "Already left this challenge",
                                    None)
                /\ UNCHANGED <<pc, req>>
           ELSE /\ pc' = [pc EXCEPT ![p] = "leave_status"]
                /\ req' = [req EXCEPT ![p] =
                       [op |-> "leave_challenge", user |-> u,
                        challenge_id |-> c, membership_id |-> m.id]]
                /\ UNCHANGED reply
    /\ UNCHANGED store

\* lines 407-412: mark the membership as left
LeaveUpdateStatus(p) ==
    /\ pc[p] = "leave_status"
    /\ challenge_members' =
           {IF m.id = req[p].membership_id THEN [m EXCEPT !.status = "left"]
            ELSE m : m \in challenge_members}
    /\ pc' = [pc EXCEPT ![p] = "leave_select"]
    /\ UNCHANGED <<today, challenges, challenge_habits, user_profiles,
                   check_ins, checkin_seq, hitch_log, notifications,
                   req, reply,
                   friendships, friendship_seq>>

\* lines 414-423: read the challenge's member count
LeaveSelectChallenge(p) ==
    /\ pc[p] = "leave_select"
    /\ LET rows == {ch \in challenges : ch.id = req[p].challenge_id}
       IN  IF Cardinality(rows) = 1
           THEN /\ pc' = [pc EXCEPT ![p] = "leave_count"]
                /\ req' = [req EXCEPT ![p] =
                       [op |-> "leave_challenge", user |-> req[p].user,
                        challenge_id |-> req[p].challenge_id,
                        challenge |-> CHOOSE ch \in rows : TRUE]]
                /\ UNCHANGED reply
           ELSE /\ reply' = Respond(req[p].user, 500,
                                    "Failed to leave challenge", None)
                /\ pc' = [pc EXCEPT ![p] = "idle"]
                /\ req' = [req EXCEPT ![p] = NoReq]
    /\ UNCHANGED store

LeaveUpdateCount_NoFloor(p) ==
    /\ pc[p] = "leave_count"
    /\ challenges' =
           {IF ch.id = req[p].challenge_id
            THEN [ch EXCEPT !.member_count = req[p].challenge.member_count - 1]
            ELSE ch : ch \in challenges}
    /\ pc' = [pc EXCEPT ![p] = "leave_notify"]
    /\ UNCHANGED <<today, challenge_habits, challenge_members,
                   user_profiles, check_ins, checkin_seq, hitch_log,
                   notifications, req, reply,
                   friendships, friendship_seq>>

\* lines 424-428: write back the count read, minus one, floored at 0
LeaveUpdateCount(p) ==
    /\ pc[p] = "leave_count"
    /\ challenges' =
           {IF ch.id = req[p].challenge_id
            THEN [ch EXCEPT !.member_count =
                      Max(0, req[p].challenge.member_count - 1)]
            ELSE ch : ch \in challenges}
    /\ pc' = [pc EXCEPT ![p] = "leave_notify"]
    /\ UNCHANGED <<today, challenge_habits, challenge_members,
                   user_profiles, check_ins, checkin_seq, hitch_log,
                   notifications, req, reply,
                   friendships, friendship_seq>>

\* lines 430-435: notify the creator, return the success message
LeaveNotifyRespond(p, insert_ok) ==
    /\ pc[p] = "leave_notify"
    /\ SendMemberNotification(req[p].challenge.created_by, "member_left",
                              req[p].challenge_id, req[p].user, insert_ok)
    /\ reply' = Respond(req[p].user, 200, "Successfully left challenge",
                        None)
    /\ pc' = [pc EXCEPT ![p] = "idle"]
    /\ req' = [req EXCEPT ![p] = NoReq]
    /\ UNCHANGED <<today, challenges, challenge_habits, challenge_members,
                   user_profiles, check_ins, checkin_seq, hitch_log,
                   friendships, friendship_seq>>

\* ------------------------------------------------------------ friendships
FriendshipStatuses == {"pending", "accepted", "rejected", "blocked"}

FriendshipActions == {"ACCEPT", "REJECT", "BLOCK"}

\* FriendshipAction.value
FriendshipActionValue(action) ==
    CASE action = "ACCEPT" -> "accept"
      [] action = "REJECT" -> "reject"
      [] action = "BLOCK" -> "block"

FriendAddressees == Users \cup {"ux"}

FriendshipIds == 1 .. MaxFriendshipRows

\* the rows between two users, in either direction
FriendshipsBetween(a, b) ==
    {f \in friendships :
        \/ f.requester_id = a /\ f.addressee_id = b
        \/ f.requester_id = b /\ f.addressee_id = a}

\* FriendshipBase(**row) validates status against FriendshipStatus
FriendshipBaseValid(row) == row.status \in FriendshipStatuses

\* send_friend_request, lines 44-106: self check, addressee lookup, existing
\* friendship in either direction (the first row returned decides)
FriendRequestCheck(p, u, a) ==
    /\ pc[p] = "idle"
    /\ friendship_seq < MaxFriendshipRows
    /\ UNCHANGED store
    /\ IF u = a
       THEN /\ reply' = Respond(u, 400,
                            "Cannot send friend request to yourself", None)
            /\ UNCHANGED <<pc, req>>
       ELSE IF a \notin DOMAIN user_profiles
       THEN /\ reply' = Respond(u, 404, "User not found", None)
            /\ UNCHANGED <<pc, req>>
       ELSE \/ \E existing \in FriendshipsBetween(u, a) :
                   /\ existing.status \in {"accepted", "pending", "blocked"}
                   /\ reply' =
                          IF existing.status = "accepted"
                          THEN Respond(u, 400,
                                   "Already friends with this user", None)
                          ELSE IF existing.status = "blocked"
                          THEN Respond(u, 403,
                                   "Cannot send friend request to this user",
                                   None)
                          ELSE IF existing.requester_id = u
                          THEN Respond(u, 400,
                                   "Friend request already sent", None)
                          ELSE Respond(u, 400,
                            "This user has already sent you a friend request",
                                   None)
                   /\ UNCHANGED <<pc, req>>
            \/ /\ \/ FriendshipsBetween(u, a) = {}
                  \/ \E existing \in FriendshipsBetween(u, a) :
                         existing.status
                             \notin {"accepted", "pending", "blocked"}
               /\ pc' = [pc EXCEPT ![p] = "friend_insert"]
               /\ req' = [req EXCEPT ![p] =
                      [op |-> "send_friend_request", user |-> u,
                       addressee_id |-> a]]
               /\ UNCHANGED reply

\* lines 108-122, 142-147: insert the pending row
FriendRequestInsert(p, insert_ok) ==
    /\ pc[p] = "friend_insert"
    /\ UNCHANGED <<today, challenges, challenge_habits, challenge_members,
                   user_profiles, check_ins, checkin_seq, hitch_log,
                   notifications>>
    /\ IF insert_ok
       THEN LET row == [id |-> friendship_seq + 1,
                        requester_id |-> req[p].user,
                        addressee_id |-> req[p].addressee_id,
                        status |-> "pending"]
            IN  /\ friendships' = friendships \cup {row}
                /\ friendship_seq' = friendship_seq + 1
                /\ pc' = [pc EXCEPT ![p] = "friend_notify"]
                /\ req' = [req EXCEPT ![p] =
                       [op |-> "send_friend_request", user |-> req[p].user,
                        friendship |-> row]]
                /\ UNCHANGED reply
       ELSE /\ reply' = Respond(req[p].user, 500,
                                "Failed to send friend request", None)
            /\ pc' = [pc EXCEPT ![p] = "idle"]
            /\ req' = [req EXCEPT ![p] = NoReq]
            /\ UNCHANGED <<friendships, friendship_seq>>

\* lines 124-140: notify the addressee (failure is logged), return the row
FriendRequestNotify(p, insert_ok) ==
    /\ pc[p] = "friend_notify"
    /\ IF insert_ok
       THEN notifications' = notifications \cup
                {NewNotification(req[p].friendship.addressee_id,
                     "friend_request",
                     [friendship_id |-> req[p].friendship.id,
                      requester_id |-> req[p].user])}
       ELSE UNCHANGED notifications
    /\ reply' = IF FriendshipBaseValid(req[p].friendship)
                THEN Respond(req[p].user, 201, "friend request sent",
                             req[p].friendship)
                ELSE Respond(req[p].user, 500,
                             "Failed to send friend request", None)
    /\ pc' = [pc EXCEPT ![p] = "idle"]
    /\ req' = [req EXCEPT ![p] = NoReq]
    /\ UNCHANGED <<today, challenges, challenge_habits, challenge_members,
                   user_profiles, check_ins, checkin_seq, hitch_log,
                   friendships, friendship_seq>>

\* respond_to_friend_request, lines 168-200: fetch the row by id, then the
\* addressee and pending checks
FriendRespondSelect(p, u, fid, action, single_raises) ==
    /\ pc[p] = "idle"
    /\ UNCHANGED store
    /\ LET rows == {f \in friendships : f.id = fid}
           friendship == CHOOSE f \in rows : TRUE
       IN  IF rows = {}
           THEN /\ reply' = IF single_raises
                            THEN Respond(u, 500,
                                "Failed to respond to friend request", None)
                            ELSE Respond(u, 404,
                                "Friend request not found", None)
                /\ UNCHANGED <<pc, req>>
           ELSE IF friendship.addressee_id # u
           THEN /\ reply' = Respond(u, 403,
                         "You can only respond to requests sent to you", None)
                /\ UNCHANGED <<pc, req>>
           ELSE IF friendship.status # "pending"
           THEN /\ reply' = Respond(u, 400,
                                "Cannot respond to resolved request", None)
                /\ UNCHANGED <<pc, req>>
           ELSE /\ pc' = [pc EXCEPT ![p] = "respond_update"]
                /\ req' = [req EXCEPT ![p] =
                       [op |-> "respond_to_friend_request", user |-> u,
                        friendship |-> friendship, action |-> action]]
                /\ UNCHANGED reply

\* lines 202-209: write the action's value as the new status; the store may
\* refuse a value outside its own status type
FriendRespondUpdate(p, store_accepts) ==
    /\ pc[p] = "respond_update"
    /\ UNCHANGED <<today, challenges, challenge_habits, challenge_members,
                   user_profiles, check_ins, checkin_seq, hitch_log,
                   notifications, friendship_seq>>
    /\ LET new_status == FriendshipActionValue(req[p].action)
           rows == {f \in friendships : f.id = req[p].friendship.id}
       IN  IF new_status \notin FriendshipStatuses /\ ~store_accepts
           THEN /\ reply' = Respond(req[p].user, 500,
                                "Failed to respond to friend request", None)
                /\ pc' = [pc EXCEPT ![p] = "idle"]
                /\ req' = [req EXCEPT ![p] = NoReq]
                /\ UNCHANGED friendships
           ELSE /\ friendships' =
                       {IF f \in rows THEN [f EXCEPT !.status = new_status]
                        ELSE f : f \in friendships}
                /\ pc' = [pc EXCEPT ![p] = "respond_notify"]
                /\ req' = [req EXCEPT ![p] =
                       [op |-> "respond_to_friend_request",
                        user |-> req[p].user,
                        friendship |-> req[p].friendship,
                        action |-> req[p].action,
                        updated |-> {[f EXCEPT !.status = new_status] :
                                         f \in rows}]]
                /\ UNCHANGED reply

\* lines 211-229: notify the requester on accept (failure is logged), return
\* the updated row
FriendRespondNotify(p, insert_ok) ==
    /\ pc[p] = "respond_notify"
    /\ IF req[p].action = "ACCEPT" /\ insert_ok
       THEN notifications' = notifications \cup
                {NewNotification(req[p].friendship.requester_id,
                     "friend_accepted",
                     [friendship_id |-> req[p].friendship.id,
                      user_id |-> req[p].user])}
       ELSE UNCHANGED notifications
    /\ reply' =
           IF \E f \in req[p].updated : FriendshipBaseValid(f)
           THEN Respond(req[p].user, 200, "responded",
                        CHOOSE f \in req[p].updated : TRUE)
           ELSE Respond(req[p].user, 500,
                        "Failed to respond to friend request", None)
    /\ pc' = [pc EXCEPT ![p] = "idle"]
    /\ req' = [req EXCEPT ![p] = NoReq]
    /\ UNCHANGED <<today, challenges, challenge_habits, challenge_members,
                   user_profiles, check_ins, checkin_seq, hitch_log,
                   friendships, friendship_seq>>

\* remove_friend, lines 457-484: self check, find a row in either direction
FriendRemoveSelect(p, u, other) ==
    /\ pc[p] = "idle"
    /\ UNCHANGED store
    /\ IF u = other
       THEN /\ reply' = Respond(u, 400,
                            "Cannot remove yourself as a friend", None)
            /\ UNCHANGED <<pc, req>>
       ELSE IF FriendshipsBetween(u, other) = {}
       THEN /\ reply' = Respond(u, 404, "Friendship not found", None)
            /\ UNCHANGED <<pc, req>>
       ELSE \E friendship \in FriendshipsBetween(u, other) :
                /\ pc' = [pc EXCEPT ![p] = "remove_delete"]
                /\ req' = [req EXCEPT ![p] =
                       [op |-> "remove_friend", user |-> u,
                        friendship |-> friendship]]
                /\ UNCHANGED reply

\* lines 486-492: delete that row by id
FriendRemoveDelete(p) ==
    /\ pc[p] = "remove_delete"
    /\ friendships' = {f \in friendships : f.id # req[p].friendship.id}
    /\ reply' = Respond(req[p].user, 200, "Friend removed successfully", None)
    /\ pc' = [pc EXCEPT ![p] = "idle"]
    /\ req' = [req EXCEPT ![p] = NoReq]
    /\ UNCHANGED <<today, challenges, challenge_habits, challenge_members,
                   user_profiles, check_ins, checkin_seq, hitch_log,
                   notifications, friendship_seq>>

FriendRequestStep(PS, US, AS, OKS) ==
    \/ \E p \in PS, u \in US, a \in AS :
           FriendRequestCheck(p, u, a)
    \/ \E p \in PS, ok \in BOOLEAN : FriendRequestInsert(p, ok)
    \/ \E p \in PS, ok \in OKS : FriendRequestNotify(p, ok)

FriendRespondStep(PS, US, OKS) ==
    \/ \E p \in PS, u \in US, fid \in FriendshipIds,
          action \in FriendshipActions, sr \in BOOLEAN :
           FriendRespondSelect(p, u, fid, action, sr)
    \/ \E p \in PS, ok \in BOOLEAN : FriendRespondUpdate(p, ok)
    \/ \E p \in PS, ok \in OKS : FriendRespondNotify(p, ok)

FriendRemoveStep(PS, US) ==
    \/ \E p \in PS, u \in US, other \in Users : FriendRemoveSelect(p, u, other)
    \/ \E p \in PS : FriendRemoveDelete(p)

\* ------------------------------------------------------ send_hitch_reminder
\* target_user_ids as HitchRequest admits them: 1 to 10 ids, repeats allowed
TargetLists == UNION {[1 .. n -> Users] : n \in 1 .. MaxTargetList}

HitchRowsOn(c, h, u, t, d) ==
    {r \in hitch_log : /\ r.challenge_id = c /\ r.habit_id = h
                       /\ r.sender_id = u /\ r.target_id = t
                       /\ r.hitch_date = d}

\* the targets that get a reminder: active members of the challenge the
\* sender has not yet reminded for this habit today
RpcHitchSent(c, h, u, targets) ==
    {t \in {targets[i] : i \in DOMAIN targets} :
        ActiveMemberRows(c, t) # {} /\ HitchRowsOn(c, h, u, t, today) = {}}

RpcHitchError(c, h, u, targets) ==
    IF MemberRows(c, u) = {}
    THEN "user is not an active member of this challenge"
    ELSE IF \E m \in MemberRows(c, u) : m.hitch_count <= 0
    THEN "no hitches remaining"
    ELSE IF ActiveMemberRows(c, u) = {}
    THEN "user is not an active member of this challenge"
    ELSE IF {l \in challenge_habits : l.challenge_id = c /\ l.habit_id = h}
            = {}
    THEN "habit not found"
    ELSE IF RpcHitchSent(c, h, u, targets) = {}
    THEN "no valid targets"
    ELSE "ok"

\* position of a reminded target among the reminded ones, in request order
RpcHitchRank(c, h, u, targets, t) ==
    LET first(x) == CHOOSE i \in DOMAIN targets :
                        /\ targets[i] = x
                        /\ \A j \in DOMAIN targets : targets[j] = x => i <= j
    IN  Cardinality({x \in RpcHitchSent(c, h, u, targets) :
                         first(x) <= first(t)})

RpcHitchResult(c, h, u, targets) ==
    LET m == CHOOSE m \in ActiveMemberRows(c, u) : TRUE
    IN  [hitches_sent |-> Cardinality(RpcHitchSent(c, h, u, targets)),
         remaining_hitches |-> m.hitch_count - 1]

RpcHitchApply(c, h, u, targets) ==
    LET sent == RpcHitchSent(c, h, u, targets)
    IN  /\ hitch_log' = hitch_log \cup
               {[id |-> Cardinality(hitch_log)
                          + RpcHitchRank(c, h, u, targets, t),
                 challenge_id |-> c, habit_id |-> h, sender_id |-> u,
                 target_id |-> t, hitch_date |-> today] : t \in sent}
        /\ notifications' = notifications \cup
               {[id |-> Cardinality(notifications)
                          + RpcHitchRank(c, h, u, targets, t),
                 user_id |-> t, type |-> "hitch_reminder",
                 data |-> [challenge_id |-> c, user_id |-> u,
                           habit_id |-> h, hitch_date |-> today]] :
                t \in sent}
        /\ challenge_members' =
               {IF m.challenge_id = c /\ m.user_id = u
                THEN [m EXCEPT !.hitch_count = @ - 1] ELSE m :
                m \in challenge_members}

\* --------------------------------------------------------------- send_hitch
HitchError_NoHitchesBranchDropped(msg) ==
    IF Contains(msg, "not a member") \/ Contains(msg, "not an active member")
    THEN [status |-> 403, detail |-> "Not a member"]
    ELSE IF Contains(msg, "no valid targets")
            \/ Contains(msg, "already received")
    THEN [status |-> 400, detail |-> "No valid targets"]
    ELSE IF Contains(msg, "habit not found")
    THEN [status |-> 404, detail |-> "Habit not found"]
    ELSE [status |-> 500, detail |-> "Failed to send hitch"]

HitchError_NoValidTargetsBranchDropped(msg) ==
    IF Contains(msg, "no hitches remaining")
    THEN [status |-> 400, detail |-> "No hitches remaining"]
    ELSE IF Contains(msg, "not a member")
            \/ Contains(msg, "not an active member")
    THEN [status |-> 403, detail |-> "Not a member"]
    ELSE IF Contains(msg, "habit not found")
    THEN [status |-> 404, detail |-> "Habit not found"]
    ELSE [status |-> 500, detail |-> "Failed to send hitch"]

\* lines 73-117: the except branch maps the procedure's message to a status
HitchError(msg) ==
    IF Contains(msg, "no hitches remaining")
    THEN [status |-> 400, detail |-> "No hitches remaining"]
    ELSE IF Contains(msg, "not a member")
            \/ Contains(msg, "not an active member")
    THEN [status |-> 403, detail |-> "Not a member"]
    ELSE IF Contains(msg, "no valid targets")
            \/ Contains(msg, "already received")
    THEN [status |-> 400, detail |-> "No valid targets"]
    ELSE IF Contains(msg, "habit not found")
    THEN [status |-> 404, detail |-> "Habit not found"]
    ELSE [status |-> 500, detail |-> "Failed to send hitch"]

HitchResponse_RemainingDefaulted(data) ==
    [success |-> TRUE, hitches_sent |-> data.hitches_sent,
     remaining_hitches |-> 0]

\* lines 61-71
HitchResponse(data) ==
    [success |-> TRUE, hitches_sent |-> data.hitches_sent,
     remaining_hitches |-> data.remaining_hitches]

SendHitchRpc_ErrorsSwallowed(u, c, h, targets) ==
    /\ UNCHANGED <<today, challenges, challenge_habits, user_profiles,
                   check_ins, checkin_seq, pc, req,
                   friendships, friendship_seq>>
    /\ LET msg == RpcHitchError(c, h, u, targets)
       IN  IF msg # "ok"
           THEN /\ reply' = Respond(u, 200, "hitch sent",
                       [success |-> TRUE, hitches_sent |-> 0,
                        remaining_hitches |-> 0])
                /\ UNCHANGED <<challenge_members, hitch_log, notifications>>
           ELSE /\ reply' = Respond(u, 200, "hitch sent",
                       HitchResponse(RpcHitchResult(c, h, u, targets)))
                /\ RpcHitchApply(c, h, u, targets)

\* the handler makes one store call, the stored procedure
SendHitchRpc(u, c, h, targets) ==
    /\ UNCHANGED <<today, challenges, challenge_habits, user_profiles,
                   check_ins, checkin_seq, pc, req,
                   friendships, friendship_seq>>
    /\ LET msg == RpcHitchError(c, h, u, targets)
       IN  IF msg # "ok"
           THEN /\ reply' = Respond(u, HitchError(msg).status,
                                    HitchError(msg).detail, None)
                /\ UNCHANGED <<challenge_members, hitch_log, notifications>>
           ELSE /\ reply' = Respond(u, 200, "hitch sent",
                       HitchResponse(RpcHitchResult(c, h, u, targets)))
                /\ RpcHitchApply(c, h, u, targets)

SendHitch(p, u, c, h, targets) ==
    /\ pc[p] = "idle"
    /\ SendHitchRpc(u, c, h, targets)

\* ------------------------------------------------------- create_challenge
\* habit_ids as ChallengeCreate admits them: 1 to 4 ids, no duplicates
HabitIdLists ==
    {ids \in UNION {[1 .. n -> HabitIds] : n \in 1 .. MaxHabitIds} :
        \A i, j \in DOMAIN ids : i # j => ids[i] # ids[j]}

CodeCandidates == {"ABC234", "DEF567"}

\* lines 47-60: every requested habit id must be a row of habits
CreateChallengeValidate(p, u, habit_ids, max_members) ==
    /\ pc[p] = "idle"
    /\ Cardinality(challenges) < MaxChallenges
    /\ LET found == {h \in Habits : \E i \in DOMAIN habit_ids :
                                        habit_ids[i] = h}
       IN  IF Cardinality(found) # Len(habit_ids)
           THEN /\ reply' = Respond(u, 400, "Some habit IDs not found", None)
                /\ UNCHANGED <<pc, req>>
           ELSE /\ pc' = [pc EXCEPT ![p] = "challenge_code"]
                /\ req' = [req EXCEPT ![p] =
                       [op |-> "create_challenge", user |-> u,
                        habit_ids |-> habit_ids,
                        max_members |-> max_members, attempts |-> 0]]
                /\ UNCHANGED reply
    /\ UNCHANGED store

\* generate_unique_invite_code: one iteration of the retry loop
CreateChallengeGenerateCode(p, code) ==
    /\ pc[p] = "challenge_code"
    /\ IF {ch \in challenges : ch.invite_code = code} = {}
       THEN /\ pc' = [pc EXCEPT ![p] = "challenge_insert"]
            /\ req' = [req EXCEPT ![p] =
                   [op |-> "create_challenge", user |-> req[p].user,
                    habit_ids |-> req[p].habit_ids,
                    max_members |-> req[p].max_members,
                    invite_code |-> code]]
            /\ UNCHANGED reply
       ELSE IF req[p].attempts + 1 < MaxAttempts
       THEN /\ req' = [req EXCEPT ![p].attempts = @ + 1]
            /\ UNCHANGED <<pc, reply>>
       ELSE /\ reply' = Respond(req[p].user, 500,
                            "Failed to generate unique invite code", None)
            /\ pc' = [pc EXCEPT ![p] = "idle"]
            /\ req' = [req EXCEPT ![p] = NoReq]
    /\ UNCHANGED store

\* lines 65-93: insert the challenge row
CreateChallengeInsert(p) ==
    /\ pc[p] = "challenge_insert"
    /\ LET id == Cardinality(challenges) + 1
       IN  /\ challenges' = challenges \cup
                  {[id |-> id, invite_code |-> req[p].invite_code,
                    status |-> "pending", created_by |-> req[p].user,
                    max_members |-> req[p].max_members, member_count |-> 0]}
           /\ req' = [req EXCEPT ![p] =
                  [op |-> "create_challenge", user |-> req[p].user,
                   habit_ids |-> req[p].habit_ids, challenge_id |-> id,
                   idx |-> 1]]
    /\ pc' = [pc EXCEPT ![p] = "challenge_habits"]
    /\ UNCHANGED <<today, challenge_habits, challenge_members,
                   user_profiles, check_ins, checkin_seq, hitch_log,
                   notifications, reply,
                   friendships, friendship_seq>>

\* lines 95-103: one iteration of the habit link loop
CreateChallengeInsertHabit(p) ==
    /\ pc[p] = "challenge_habits"
    /\ challenge_habits' = challenge_habits \cup
           {[challenge_id |-> req[p].challenge_id,
             habit_id |-> req[p].habit_ids[req[p].idx],
             display_order |-> req[p].idx - 1]}
    /\ IF req[p].idx < Len(req[p].habit_ids)
       THEN /\ req' = [req EXCEPT ![p].idx = @ + 1]
            /\ UNCHANGED pc
       ELSE /\ pc' = [pc EXCEPT ![p] = "challenge_member"]
            /\ UNCHANGED req
    /\ UNCHANGED <<today, challenges, challenge_members, user_profiles,
                   check_ins, checkin_seq, hitch_log, notifications, reply,
                   friendships, friendship_seq>>

\* lines 105-114: add the creator as member
CreateChallengeInsertMember(p) ==
    /\ pc[p] = "challenge_member"
    /\ challenge_members' = challenge_members \cup
           {NewMember(Cardinality(challenge_members) + 1,
                      req[p].challenge_id, req[p].user, "creator")}
    /\ pc' = [pc EXCEPT ![p] = "challenge_count"]
    /\ UNCHANGED <<today, challenges, challenge_habits, user_profiles,
                   check_ins, checkin_seq, hitch_log, notifications,
                   req, reply,
                   friendships, friendship_seq>>

\* lines 116-119: set member_count to 1
CreateChallengeUpdateCount(p) ==
    /\ pc[p] = "challenge_count"
    /\ challenges' =
           {IF ch.id = req[p].challenge_id
            THEN [ch EXCEPT !.member_count = 1] ELSE ch : ch \in challenges}
    /\ pc' = [pc EXCEPT ![p] = "challenge_details"]
    /\ UNCHANGED <<today, challenge_habits, challenge_members,
                   user_profiles, check_ins, checkin_seq, hitch_log,
                   notifications, req, reply,
                   friendships, friendship_seq>>

\* lines 121-131: return the challenge details
CreateChallengeRespond(p) ==
    /\ pc[p] = "challenge_details"
    /\ reply' =
           IF ChallengeDetailsStatus(req[p].challenge_id, req[p].user) = 200
           THEN Respond(req[p].user, 201, "created",
                    ChallengeDetailsBody(req[p].challenge_id, req[p].user))
           ELSE Respond(req[p].user, 500, "Failed to create challenge", None)
    /\ pc' = [pc EXCEPT ![p] = "idle"]
    /\ req' = [req EXCEPT ![p] = NoReq]
    /\ UNCHANGED store

\* lines 125-131: a store write after the code was generated raises; what
\* was written before it stays
CreateChallengeWriteFails(p) ==
    /\ pc[p] \in {"challenge_insert", "challenge_habits", "challenge_member",
                  "challenge_count"}
    /\ reply' = Respond(req[p].user, 500, "Failed to create challenge", None)
    /\ pc' = [pc EXCEPT ![p] = "idle"]
    /\ req' = [req EXCEPT ![p] = NoReq]
    /\ UNCHANGED store

CreateChallengeStep(PS, US) ==
    \/ \E p \in PS, u \in US, ids \in HabitIdLists :
           CreateChallengeValidate(p, u, ids, 2)
    \/ \E p \in PS, code \in CodeCandidates :
           CreateChallengeGenerateCode(p, code)
    \/ \E p \in PS : CreateChallengeInsert(p)
    \/ \E p \in PS : CreateChallengeInsertHabit(p)
    \/ \E p \in PS : CreateChallengeInsertMember(p)
    \/ \E p \in PS : CreateChallengeUpdateCount(p)
    \/ \E p \in PS : CreateChallengeRespond(p)
    \/ \E p \in PS : CreateChallengeWriteFails(p)

JoinStep(PS) ==
    \/ \E p \in PS, u \in Users, code \in InviteCodes, sr \in BOOLEAN :
           JoinSelectChallenge(p, u, code, sr)
    \/ \E p \in PS : JoinCheckExisting(p)
    \/ \E p \in PS : JoinInsertMember(p)
    \/ \E p \in PS : JoinUpdateCount(p)
    \/ \E p \in PS, ok \in BOOLEAN : JoinNotifyRespond(p, ok)

LeaveStep(PS) ==
    \/ \E p \in PS, u \in Users, c \in InitChallengeIds, sr \in BOOLEAN :
           LeaveSelectMembership(p, u, c, sr)
    \/ \E p \in PS : LeaveUpdateStatus(p)
    \/ \E p \in PS : LeaveSelectChallenge(p)
    \/ \E p \in PS : LeaveUpdateCount(p)
    \/ \E p \in PS, ok \in BOOLEAN : LeaveNotifyRespond(p, ok)

CheckinStep(PS, HS, EVS) ==
    \/ \E p \in PS, u \in Users, c \in InitChallengeIds, h \in HS,
          ev \in EVS : CreateCheckinRpc(p, u, c, h, ev)
    \/ \E p \in PS, ok \in BOOLEAN : CreateCheckinReadBack(p, ok)

MemberEvidence == {ev \in EvidenceInputs : ev.photo_url = None}

CheckinNext ==
    \/ NextDay
    \/ CheckinStep(Procs, Habits, MemberEvidence)

SpecCheckin == Init /\ [][CheckinNext]_vars

MemberNext ==
    \/ CheckinStep({"p2"}, {"h1"}, MemberEvidence)
    \/ JoinStep({"p1"})
    \/ LeaveStep({"p1"})

SpecMember == Init /\ [][MemberNext]_vars

ValidateNext ==
    \/ CheckinStep({"p2"}, {"h1"}, EvidenceInputs)
    \/ CreateChallengeStep({"p1"}, {"u3"})

SpecValidate == Init /\ [][ValidateNext]_vars

HitchHabits == {"h1"}

HitchStep(PS, US, HS) ==
    \E p \in PS, u \in US, c \in InitChallengeIds, h \in HS,
       targets \in TargetLists :
        SendHitch(p, u, c, h, targets)

HitchNext ==
    \/ NextDay
    \/ HitchStep({"p1"}, {"u2"}, HitchHabits)
    \/ LeaveStep({"p2"})

SpecHitch == Init /\ [][HitchNext]_vars

\* send_hitch calls of one sender from both processes, in any order
HitchRaceNext ==
    \/ NextDay
    \/ HitchStep(Procs, {"u2"}, HitchHabits)

SpecHitchRace == Init /\ [][HitchRaceNext]_vars

\* one member spends hitches while membership requests come one at a time
RejoinNext ==
    \/ HitchStep({"p2"}, {"u2"}, HitchHabits)
    \/ JoinStep({"p1"})
    \/ LeaveStep({"p1"})

SpecRejoin == Init /\ [][RejoinNext]_vars

FriendCallers == {"u1", "u2"}

FriendNext ==
    \/ FriendRequestStep({"p1"}, {"u1"}, FriendCallers \cup {"ux"}, {TRUE})
    \/ FriendRequestStep({"p2"}, {"u2"}, {"u1"}, {TRUE})
    \/ FriendRespondStep({"p1"}, FriendCallers, {TRUE})
    \/ FriendRemoveStep({"p1"}, FriendCallers)

SpecFriends == Init /\ [][FriendNext]_vars

\* responses of two requests in flight at once, on requests sent by u2
RespondNext ==
    \/ FriendRequestStep({"p1"}, {"u2"}, {"u1", "u3"}, {TRUE})
    \/ FriendRespondStep(Procs, FriendCallers, {TRUE})

SpecRespond == Init /\ [][RespondNext]_vars

\* the operations that notify, each with a notification insert that may fail
NotifyNext ==
    \/ JoinStep({"p1"})
    \/ LeaveStep({"p1"})
    \/ FriendRequestStep({"p2"}, {"u2"}, {"u1"}, BOOLEAN)
    \/ FriendRespondStep({"p2"}, {"u1"}, BOOLEAN)

SpecNotify == Init /\ [][NotifyNext]_vars

\* SRS: whether .single() raises on no row; OKS: whether the write succeeds
UpdateCheckinStep(PS, US, SRS, OKS) ==
    \/ \E p \in PS, u \in US, id \in CheckinIds, caption \in CaptionInputs,
          sr \in SRS : UpdateCheckinSelect(p, u, id, caption, sr)
    \/ \E p \in PS, ok \in OKS : UpdateCheckinWrite(p, ok)

DeleteCheckinStep(PS, US, SRS, OKS) ==
    \/ \E p \in PS, u \in US, id \in CheckinIds, sr \in SRS :
           DeleteCheckinSelect(p, u, id, sr)
    \/ \E p \in PS, ok \in OKS : DeleteCheckinWrite(p, ok)

EditEvidence == {ev \in EvidenceInputs : ev.caption = "cap"}

\* check-ins of one member on one habit, edited and deleted by the owner
\* and by another user
EditHabits == {"h1"}

EditCheckinStep(PS, US) ==
    \/ \E p \in PS, u \in US, c \in InitChallengeIds, h \in EditHabits,
          ev \in EditEvidence : CreateCheckinRpc(p, u, c, h, ev)
    \/ \E p \in PS : CreateCheckinReadBack(p, TRUE)

EditNext ==
    \/ today < MaxEditDay /\ NextDay
    \/ EditCheckinStep({"p1"}, {"u2"})
    \/ UpdateCheckinStep({"p2"}, FriendCallers, {TRUE}, BOOLEAN)
    \/ DeleteCheckinStep({"p2"}, FriendCallers, {TRUE}, {TRUE})

SpecEdit == Init /\ [][EditNext]_vars

UpdateChallengeStep(PS, US) ==
    \/ \E p \in PS, u \in US, c \in ChallengeIds, update \in ChallengeUpdates,
          sr \in BOOLEAN : UpdateChallengeSelect(p, u, c, update, sr)
    \/ \E p \in PS, ok \in BOOLEAN : UpdateChallengeWrite(p, ok)
    \/ \E p \in PS : UpdateChallengeRespond(p)

\* challenges created by u3 and updated by their members
StatusNext ==
    \/ CreateChallengeStep({"p1"}, {"u3"})
    \/ UpdateChallengeStep({"p2"}, {"u1", "u3"})

SpecStatus == Init /\ [][StatusNext]_vars

\* create_challenge requests of u3 in flight at once
CodesNext == CreateChallengeStep(Procs, {"u3"})

SpecCodes == Init /\ [][CodesNext]_vars

\* join requests in flight at once, after a member has left
JoinRaceNext ==
    \/ JoinStep(Procs)
    \/ LeaveStep({"p1"})

SpecJoinRace == Init /\ [][JoinRaceNext]_vars

\* ================================================================= claims
SameCheckinKey(r1, r2) ==
    /\ r1.challenge_id = r2.challenge_id
    /\ r1.habit_id = r2.habit_id
    /\ r1.user_id = r2.user_id
    /\ r1.checkin_date = r2.checkin_date

\* the create_checkin request of process p answers from its read-back
CheckinReadBackStep(p) == pc[p] = "checkin_readback" /\ pc'[p] = "idle"

\* the stored procedure of process p's create_checkin commits in this step
CheckinCommitStep(p) == pc[p] = "idle" /\ pc'[p] = "checkin_readback"

\* process p is idle before and after a step that answers a request
AnswerStep(p) == pc[p] = "idle" /\ pc'[p] = "idle" /\ reply' # reply

\* the answer is that of process p's create_checkin for (c, h, ev), given by
\* the handler's first step
CheckinRejectStep(p, c, h, ev) == CreateCheckinRpc(p, reply'.user, c, h, ev)

\* C1: among the create_checkin requests for one (user, habit, challenge,
\* day), the one that finds no row succeeds (201), every request that finds
\* a row is rejected with Conflict (409), and no two check-in rows ever
\* share a key.
C1_ExactlyOneCheckinSucceeds ==
    [][\A p \in Procs :
         /\ AnswerStep(p) =>
                \A c \in InitChallengeIds, h \in Habits, ev \in EvidenceInputs :
                    (/\ CheckinRejectStep(p, c, h, ev)
                     /\ EvidenceProvided(ev)
                     /\ ActiveMemberRows(c, reply'.user) # {}
                     /\ CheckinRowsOn(c, h, reply'.user, today) # {})
                    => reply'.status = 409
         /\ CheckinReadBackStep(p) => reply'.status = 201
         /\ CheckinCommitStep(p) =>
                \A r1, r2 \in check_ins' : SameCheckinKey(r1, r2) => r1 = r2
      ]_vars

\* C2: a check-in on the day after the member's previous check-in for the
\* habit and challenge returns new_streak = previous streak + 1 and
\* is_streak_broken = false; with a gap of two or more days it returns
\* new_streak = 1 and is_streak_broken = true.
C2_StreakContinuesOrResets ==
    [][\A p \in Procs :
         /\ CheckinCommitStep(p)
                => LET u == req'[p].user
                       c == req'[p].challenge_id
                       h == req'[p].habit_id
                       result == req'[p].rpc_result
                       streak == (CHOOSE m \in ActiveMemberRows(c, u) :
                                      TRUE).current_streak
                   IN  CheckinRows(c, h, u) # {} =>
                         LET previous == SetMax({r.checkin_date :
                                                r \in CheckinRows(c, h, u)})
                         IN  /\ today = previous + 1 =>
                                    /\ result.new_streak = streak + 1
                                    /\ result.is_streak_broken = FALSE
                             /\ today >= previous + 2 =>
                                    /\ result.new_streak = 1
                                    /\ result.is_streak_broken = TRUE
         /\ (CheckinReadBackStep(p) /\ reply'.status = 201)
                => /\ reply'.body.new_streak = req[p].rpc_result.new_streak
                   /\ reply'.body.is_streak_broken =
                          req[p].rpc_result.is_streak_broken
      ]_vars

C2_Witness ==
    /\ reply.status = 201
    /\ reply.body.is_streak_broken = TRUE
    /\ \E m \in challenge_members :
           m.user_id = reply.user /\ m.longest_streak >= 2

\* C3: a successful create_checkin awards 10 points when it is the member's
\* first check-in for the habit or the streak was broken, and 20 points
\* when the streak continued; it returns no other value.
C3_PointsAreTenOrTwenty ==
    [][\A p \in Procs :
         /\ CheckinCommitStep(p)
                => LET first == CheckinRows(req'[p].challenge_id,
                                    req'[p].habit_id, req'[p].user) = {}
                       result == req'[p].rpc_result
                   IN  result.points_earned =
                           IF first \/ result.is_streak_broken THEN 10
                           ELSE 20
         /\ (CheckinReadBackStep(p) /\ reply'.status = 201)
                => /\ reply'.body.points_earned =
                          req[p].rpc_result.points_earned
                   /\ reply'.body.points_earned \in {10, 20}
      ]_vars

C3_Witness ==
    /\ reply.status = 201
    /\ reply.body.points_earned = 20
    /\ reply.body.new_streak = 2
    /\ \E m \in challenge_members :
           m.user_id = reply.user /\ m.points_earned = 30

\* C4: a successful create_checkin adds 1 to the member's total_checkins,
\* adds the returned points_earned to the member's points_earned, sets
\* current_streak to the returned new_streak and longest_streak to the
\* larger of its old value and new_streak; longest_streak >= current_streak
\* holds for every member in every state.
C4_MemberStatsUpdate ==
    /\ [](\A m \in challenge_members : m.longest_streak >= m.current_streak)
    /\ [][\A p \in Procs :
            /\ CheckinCommitStep(p)
                   => \A m \in ActiveMemberRows(req'[p].challenge_id,
                                                req'[p].user) :
                        \E n \in challenge_members' :
                          /\ n.id = m.id
                          /\ n.total_checkins = m.total_checkins + 1
                          /\ n.points_earned = m.points_earned
                                 + req'[p].rpc_result.points_earned
                          /\ n.current_streak = req'[p].rpc_result.new_streak
                          /\ n.longest_streak =
                                 Max(m.longest_streak,
                                     req'[p].rpc_result.new_streak)
            /\ (CheckinReadBackStep(p) /\ reply'.status = 201)
                   => /\ reply'.body.points_earned =
                             req[p].rpc_result.points_earned
                      /\ reply'.body.new_streak =
                             req[p].rpc_result.new_streak
         ]_vars

C4_Witness ==
    \E m \in challenge_members :
        /\ m.total_checkins = 3
        /\ m.longest_streak = 2
        /\ m.current_streak = 1
        /\ m.points_earned = 40
        /\ reply.status = 201
        /\ reply.user = m.user_id

\* C5: whenever create_checkin answers with an error, nothing of the request
\* is in the store: an error from the first step leaves the store unchanged,
\* and an error from the read-back leaves no check-in row of the request.
C5_CheckinAllOrNothing ==
    [][\A p \in Procs :
         /\ AnswerStep(p) =>
                \A c \in InitChallengeIds, h \in Habits, ev \in EvidenceInputs :
                    CheckinRejectStep(p, c, h, ev) => UNCHANGED store
         /\ (CheckinReadBackStep(p) /\ reply'.status # 201)
                => ~ \E r \in check_ins' :
                         r.id = req[p].rpc_result.checkin_id
      ]_vars

HitchAnswerStep == reply' # reply /\ pc' = pc /\ \E p \in Procs : pc[p] = "idle"

\* send_hitch by the user the reply names
HitchCall(c, h, targets) == SendHitchRpc(reply'.user, c, h, targets)

HitchCountOf(c, u) == {m.hitch_count : m \in MemberRows(c, u)}

\* C8: send_hitch by a sender whose hitch_count is 0 is answered with 400
\* "No hitches remaining" whatever the targets are, and it leaves the reminder
\* log, the notifications and the members (so hitch_count stays 0) unchanged.
C8_NoHitchesRemaining ==
    [][HitchAnswerStep =>
             \A c \in InitChallengeIds, h \in HitchHabits,
                targets \in TargetLists :
                 (/\ HitchCountOf(c, reply'.user) = {0}
                  /\ HitchCall(c, h, targets))
                 => /\ reply'.status = 400
                    /\ reply'.detail = "No hitches remaining"
                    /\ UNCHANGED store
      ]_vars

C8_Witness ==
    /\ reply.status = 400
    /\ reply.detail = "No hitches remaining"
    /\ HitchCountOf(1, reply.user) = {0}
    /\ Cardinality(hitch_log) >= 2

HitchKeyUnique ==
    /\ \A r1, r2 \in hitch_log :
           (/\ r1.challenge_id = r2.challenge_id
            /\ r1.habit_id = r2.habit_id
            /\ r1.sender_id = r2.sender_id
            /\ r1.target_id = r2.target_id
            /\ r1.hitch_date = r2.hitch_date) => r1 = r2
    /\ \A n1, n2 \in {n \in notifications : n.type = "hitch_reminder"} :
           (n1.user_id = n2.user_id /\ n1.data = n2.data) => n1 = n2

\* C9: the reminder log and the reminder notifications never hold two entries
\* for one (sender, target, habit, challenge, day); a send_hitch whose targets
\* were all reminded by this sender for this habit today adds no reminder and
\* no notification and leaves hitch_count as it was; it is refused, with 400
\* when the sender is still an active member.
C9_OneReminderPerKeyPerDay ==
    [][/\ HitchKeyUnique'
       /\ HitchAnswerStep =>
                \A c \in InitChallengeIds, h \in HitchHabits,
                   targets \in TargetLists :
                    (/\ \A i \in DOMAIN targets :
                            HitchRowsOn(c, h, reply'.user, targets[i], today)
                                # {}
                     /\ HitchCall(c, h, targets))
                    => /\ UNCHANGED store
                       /\ reply'.status # 200
                       /\ ActiveMemberRows(c, reply'.user) # {}
                              => reply'.status = 400
      ]_vars

C9_Witness ==
    /\ reply.status = 400
    /\ reply.detail = "No valid targets"
    /\ reply.user = "u2"
    /\ HitchCountOf(1, "u2") = {1}
    /\ \E r \in hitch_log : r.sender_id = "u2" /\ r.hitch_date = today
    /\ \A t \in {"u1", "u2"} : HitchRowsOn(1, "h1", "u2", t, today) # {}

\* C10: a send_hitch that records at least one reminder lowers the sender's
\* hitch_count by exactly 1 however many targets were reminded, and answers
\* with remaining_hitches equal to the stored hitch_count after the call and
\* hitches_sent equal to the number of reminders recorded; a send_hitch that
\* records none leaves every member row unchanged.
C10_OneHitchPerSendingCall ==
    [][HitchAnswerStep =>
             \A c \in InitChallengeIds, h \in HitchHabits,
                targets \in TargetLists :
                 HitchCall(c, h, targets) =>
                     IF hitch_log' # hitch_log
                     THEN /\ \A m \in MemberRows(c, reply'.user) :
                                 [m EXCEPT !.hitch_count = @ - 1]
                                     \in challenge_members'
                          /\ Cardinality(challenge_members')
                                 = Cardinality(challenge_members)
                          /\ reply'.status = 200
                          /\ {m.hitch_count : m \in
                                 {m \in challenge_members' :
                                      /\ m.challenge_id = c
                                      /\ m.user_id = reply'.user}}
                                 = {reply'.body.remaining_hitches}
                          /\ reply'.body.hitches_sent
                                 = Cardinality(hitch_log' \ hitch_log)
                          /\ reply'.body.hitches_sent
                                 = Cardinality(notifications' \ notifications)
                     ELSE /\ reply'.status # 200
                          /\ UNCHANGED challenge_members
      ]_vars

C10_Witness ==
    /\ reply.status = 200
    /\ reply.detail = "hitch sent"
    /\ reply.body.hitches_sent = 2
    /\ reply.body.remaining_hitches = 1
    /\ HitchCountOf(1, reply.user) = {1}
    /\ Cardinality(hitch_log) = 2

\* C11: hitch_count is never negative, and every send_hitch that is answered
\* with success took one hitch from an allowance that was at least 1, so the
\* calls of one sender that succeed never outnumber the allowance the sender
\* started with, however the calls of the two processes interleave.
C11_AllowanceNeverOverspent ==
    [][/\ \A m \in challenge_members' : m.hitch_count >= 0
       /\ (reply' # reply /\ reply'.status = 200
           /\ reply'.detail = "hitch sent") =>
              \E m \in challenge_members :
                  /\ m.user_id = reply'.user
                  /\ m.hitch_count >= 1
                  /\ [m EXCEPT !.hitch_count = @ - 1] \in challenge_members'
                  /\ challenge_members' \ challenge_members
                         = {[m EXCEPT !.hitch_count = @ - 1]}
                  /\ hitch_log' # hitch_log
       /\ hitch_log' # hitch_log =>
              reply'.status = 200 /\ reply'.detail = "hitch sent"
      ]_vars

C11_Witness ==
    /\ HitchCountOf(1, "u2") = {0}
    /\ reply.user = "u2"
    /\ reply.status = 400
    /\ reply.detail = "No hitches remaining"
    /\ today = 1

MemberCountOf(c) == {ch.member_count : ch \in {x \in challenges : x.id = c}}

\* C12: leave_challenge by the creator, and by a member who has already left,
\* is answered with 400 and changes nothing; by an active member it sets
\* exactly that membership's status to left and then lowers exactly that
\* challenge's member_count by 1, not below 0.
C12_LeaveChallenge ==
    [][\A p \in Procs :
         /\ AnswerStep(p) =>
                \A c \in InitChallengeIds, sr \in BOOLEAN :
                    (/\ \E m \in MemberRows(c, reply'.user) :
                            m.role = "creator" \/ m.status = "left"
                     /\ Cardinality(MemberRows(c, reply'.user)) = 1
                     /\ LeaveSelectMembership(p, reply'.user, c, sr))
                    => reply'.status = 400 /\ UNCHANGED store
         /\ (pc[p] = "idle" /\ pc'[p] = "leave_status") =>
                \E m \in ActiveMemberRows(req'[p].challenge_id, req'[p].user) :
                    m.role # "creator" /\ m.id = req'[p].membership_id
         /\ (pc[p] = "leave_status" /\ pc'[p] = "leave_select") =>
                \E m \in ActiveMemberRows(req[p].challenge_id, req[p].user) :
                    /\ challenge_members' =
                           (challenge_members \ {m})
                               \cup {[m EXCEPT !.status = "left"]}
                    /\ UNCHANGED challenges
         /\ (pc[p] = "leave_count" /\ pc'[p] = "leave_notify") =>
                \E ch \in challenges :
                    /\ ch.id = req[p].challenge_id
                    /\ challenges' =
                           (challenges \ {ch}) \cup
                               {[ch EXCEPT !.member_count =
                                     IF ch.member_count >= 1
                                     THEN ch.member_count - 1 ELSE 0]}
                    /\ UNCHANGED challenge_members
         /\ (pc[p] = "leave_notify" /\ pc'[p] = "idle") =>
                /\ reply'.status = 200
                /\ \E m \in MemberRows(req[p].challenge_id, req[p].user) :
                       m.status = "left"
         /\ \A ch \in challenges' : ch.member_count >= 0
      ]_vars

C12_Witness ==
    /\ reply.status = 400
    /\ reply.detail = "Already left this challenge"
    /\ \E m \in MemberRows(1, reply.user) : m.status = "left"
    /\ MemberCountOf(1) = {1}

\* C13: when a user without a membership row joins a challenge that is not
\* full with its invite code, exactly one membership row is added, with role
\* member, status active and hitch_count 2, then the challenge's member_count
\* goes up by exactly 1, and the join is answered with success.
C13_FirstJoin ==
    [][\A p \in Procs :
         /\ (/\ pc[p] = "join_existing"
             /\ MemberRows(req[p].challenge.id, req[p].user) = {}
             /\ \E ch \in challenges :
                    /\ ch.id = req[p].challenge.id
                    /\ ch.member_count < ch.max_members
             /\ pc'[p] # pc[p])
            => pc'[p] = "join_insert"
         /\ (pc[p] = "join_insert" /\ pc'[p] = "join_count") =>
                /\ MemberRows(req[p].challenge.id, req[p].user) = {}
                /\ challenge_members \subseteq challenge_members'
                /\ \E m \in challenge_members' :
                       /\ challenge_members' \ challenge_members = {m}
                       /\ m.challenge_id = req[p].challenge.id
                       /\ m.user_id = req[p].user
                       /\ m.role = "member"
                       /\ m.status = "active"
                       /\ m.hitch_count = 2
                /\ UNCHANGED challenges
         /\ (pc[p] = "join_count" /\ pc'[p] = "join_details") =>
                \E ch \in challenges :
                    /\ ch.id = req[p].challenge.id
                    /\ challenges' =
                           (challenges \ {ch}) \cup
                               {[ch EXCEPT !.member_count = @ + 1]}
                    /\ UNCHANGED challenge_members
         /\ (pc[p] = "join_details" /\ pc'[p] = "idle" /\ req[p].notify) =>
                /\ reply'.status = 200
                /\ reply'.body.my_role = "member"
                /\ reply'.body.my_status = "active"
                /\ reply'.body.hitch_count = 2
                /\ UNCHANGED <<challenges, challenge_members>>
      ]_vars

C13_Witness ==
    /\ reply.status = 200
    /\ reply.detail = "joined"
    /\ reply.user = "u3"
    /\ reply.body.member_count = 2
    /\ \E m \in ActiveMemberRows(1, "u3") :
           m.role = "member" /\ m.hitch_count = 2
    /\ Cardinality(MemberRows(1, "u3")) = 1

\* C14: when a user whose only membership row has status left joins again,
\* that row becomes active with hitch_count 2, whatever hitch_count was, no
\* other row changes and no row is added, and the join is answered with
\* success.
C14_RejoinReusesRow ==
    [][\A p \in Procs :
         /\ (/\ pc[p] = "join_existing"
             /\ pc'[p] # pc[p]
             /\ \E m \in MemberRows(req[p].challenge.id, req[p].user) :
                    m.status = "left")
            => \E m \in MemberRows(req[p].challenge.id, req[p].user) :
                   /\ MemberRows(req[p].challenge.id, req[p].user) = {m}
                   /\ challenge_members' =
                          (challenge_members \ {m}) \cup
                              {[m EXCEPT !.status = "active",
                                         !.hitch_count = 2]}
                   /\ Cardinality(challenge_members')
                          = Cardinality(challenge_members)
                   /\ pc'[p] = "join_details"
         /\ (pc[p] = "join_details" /\ pc'[p] = "idle" /\ ~req[p].notify) =>
                /\ reply'.status = 200
                /\ UNCHANGED challenge_members
      ]_vars

C14_Witness ==
    /\ reply.status = 200
    /\ reply.detail = "joined"
    /\ reply.user = "u2"
    /\ Cardinality(MemberRows(1, "u2")) = 1
    /\ HitchCountOf(1, "u2") = {2}
    /\ ActiveMemberRows(1, "u2") # {}
    /\ \E r \in hitch_log : r.sender_id = "u2"

\* ------------------------------------------------------------------ C15
\* C15: in every reachable state the friendships table holds at most one row
\* per unordered pair of users, whatever the sequence and interleaving of
\* send_friend_request, respond_to_friend_request and remove_friend
\* (including a request after a declined one and simultaneous requests in
\* both directions).
C15_OneRowPerPair ==
    \A f, g \in friendships :
        {f.requester_id, f.addressee_id} = {g.requester_id, g.addressee_id}
            => f = g

\* ------------------------------------------------------------------ C16
\* C16: respond_to_friend_request changes a friendship only when the caller
\* is its addressee and its status is pending; anyone else is answered 403, a
\* response to a resolved request is answered 400, the row is unchanged in
\* both cases, and so a friendship that is no longer pending never changes
\* status again.
C16_ResolvedIsTerminal ==
    [][\A f \in friendships :
           f.status # "pending" =>
               \A g \in friendships' : g.id = f.id => g.status = f.status]_vars

\* ------------------------------------------------------------------ C17
\* the status the claim expects for each action
ExpectedStatus(action) ==
    CASE action = "ACCEPT" -> "accepted"
      [] action = "REJECT" -> "rejected"
      [] action = "BLOCK" -> "blocked"

\* C17: when the addressee's response to a pending friend request completes,
\* the call succeeds and both the stored row and the returned row carry the
\* status accepted, rejected or blocked for the action accept, reject or
\* block.
C17_RespondStoresStatus ==
    [][\A p \in Procs :
           (pc[p] \in {"respond_update", "respond_notify"} /\ pc'[p] = "idle")
               => /\ reply'.status = 200
                  /\ reply'.body.status = ExpectedStatus(req[p].action)
                  /\ \A f \in friendships' :
                         f.id = req[p].friendship.id
                             => f.status = ExpectedStatus(req[p].action)]_vars

\* ------------------------------------------------------------------ C18
SamePair(f, g) ==
    {f.requester_id, f.addressee_id} = {g.requester_id, g.addressee_id}

\* C18: a remove_friend that succeeds, called by either of the two users,
\* leaves no friendship row between them (so a further remove_friend by
\* either user finds nothing and is answered 404) and leaves the rows of
\* every other pair as they were.
C18_RemoveDeletesThePair ==
    [][\A p \in Procs :
           (pc[p] = "remove_delete" /\ pc'[p] = "idle")
               => /\ reply'.status = 200
                  /\ \A g \in friendships' : ~SamePair(g, req[p].friendship)
                  /\ {g \in friendships' : ~SamePair(g, req[p].friendship)}
                       = {g \in friendships : ~SamePair(g, req[p].friendship)}
      ]_vars

\* ------------------------------------------------------------------ C19
\* a row as a block response leaves it
BlockRow(f) == f.status \in {"blocked", FriendshipActionValue("BLOCK")}

\* C19: while a friendship row records that the addressee blocked the
\* requester, no send_friend_request between the two users gets past the
\* existence check, and no step adds or produces a pending or accepted
\* friendship between them.
C19_BlockedStaysBlocked ==
    [][/\ \A p \in Procs :
              (pc[p] = "idle" /\ pc'[p] = "friend_insert")
                  => ~\E f \in friendships :
                         /\ BlockRow(f)
                         /\ {f.requester_id, f.addressee_id}
                                = {req'[p].user, req'[p].addressee_id}
       /\ \A f \in friendships :
              BlockRow(f) =>
                  \A g \in friendships' :
                      SamePair(g, f) => g.status \notin {"pending", "accepted"}
      ]_vars

\* ------------------------------------------------------------------ C20
\* the last step of an operation that notifies, taken without a
\* notification having been recorded
NotifyFailedStep(p) ==
    /\ \/ pc[p] \in {"join_details", "leave_notify", "friend_notify"}
       \/ pc[p] = "respond_notify" /\ req[p].action = "ACCEPT"
    /\ pc'[p] = "idle"
    /\ notifications' = notifications

\* C20: when the notification of join_challenge, leave_challenge,
\* send_friend_request or an accepting respond_to_friend_request is not
\* recorded, the operation still answers success and its membership or
\* friendship changes stay.
C20_NotificationFailureSwallowed ==
    [][\A p \in Procs :
           NotifyFailedStep(p)
               => /\ reply'.status \in {200, 201}
                  /\ challenge_members' = challenge_members
                  /\ challenges' = challenges
                  /\ friendships' = friendships]_vars

\* ------------------------------------------------------------------ C21
\* the answer is that of update_checkin(id, caption) by the replying user
UpdateCheckinCall(id, caption) ==
    \E p \in Procs, sr \in BOOLEAN :
        UpdateCheckinSelect(p, reply'.user, id, caption, sr)

\* C21: a check-in row changes only in the write of an update_checkin by its
\* owner, decided while its checkin_date was the current day, and then only
\* caption and updated_at differ; update_checkin by a non-owner is answered
\* 403 and by the owner on a check-in of another day 400, the store
\* unchanged in both cases.
C21_UpdateCheckin ==
    [][/\ \A r \in check_ins, r2 \in check_ins' :
              (r2.id = r.id /\ r2 # r)
                  => /\ \E p \in Procs :
                            /\ pc[p] = "update_checkin_write"
                            /\ pc'[p] = "idle"
                            /\ req[p].checkin_id = r.id
                            /\ req[p].user = r.user_id
                            /\ req[p].today = r.checkin_date
                     /\ r2 = [r EXCEPT !.caption = r2.caption,
                                       !.updated_at = r2.updated_at]
       /\ \A id \in CheckinIds, caption \in CaptionInputs :
              (reply' # reply /\ pc' = pc /\ UpdateCheckinCall(id, caption))
                  => \A r \in check_ins :
                         r.id = id =>
                             /\ r.user_id # reply'.user
                                    => reply'.status = 403 /\ UNCHANGED store
                             /\ (r.user_id = reply'.user
                                 /\ r.checkin_date # today)
                                    => reply'.status = 400 /\ UNCHANGED store
      ]_vars

\* an owner's edit of today's check-in went through while a check-in of an
\* earlier day exists
C21_Witness ==
    /\ reply.status = 200
    /\ reply.detail = "updated"
    /\ \E r \in check_ins :
           /\ r.caption = "edited"
           /\ r.updated_at > 0
           /\ r.user_id = reply.user
           /\ r.checkin_date = today
    /\ \E r \in check_ins : r.checkin_date < today

\* ------------------------------------------------------------------ C22
\* C22: an update_checkin that carries no caption sets no updatable field:
\* it never gets as far as the write, it is answered 400, and the store stays
\* as it was.
C22_EmptyPatchRejected ==
    [][\A p \in Procs :
           /\ (pc[p] = "idle" /\ pc'[p] = "update_checkin_write")
                  => req'[p].caption # None
           /\ (pc[p] = "update_checkin_write" /\ pc'[p] = "idle"
               /\ req[p].caption = None)
                  => reply'.status = 400 /\ UNCHANGED store]_vars

\* ------------------------------------------------------------------ C23
\* the answer is that of delete_checkin(id) by the replying user
DeleteCheckinCall(id) ==
    \E p \in Procs, sr \in BOOLEAN :
        DeleteCheckinSelect(p, reply'.user, id, sr)

\* C23: a check-in row disappears only in the delete of a delete_checkin by
\* its owner; that delete removes exactly the row with that id and leaves
\* every membership row (current_streak, longest_streak, total_checkins,
\* points_earned) and every profile total as it was; delete_checkin by
\* another user is answered 403 and the row remains.
C23_DeleteCheckin ==
    [][/\ \A r \in check_ins :
              (\A r2 \in check_ins' : r2.id # r.id)
                  => \E p \in Procs :
                         /\ pc[p] = "delete_checkin_write"
                         /\ pc'[p] = "idle"
                         /\ req[p].checkin_id = r.id
                         /\ req[p].user = r.user_id
                         /\ reply'.status = 204
                         /\ check_ins' = check_ins \ {r}
                         /\ challenge_members' = challenge_members
                         /\ user_profiles' = user_profiles
       /\ \A id \in CheckinIds :
              (reply' # reply /\ pc' = pc /\ DeleteCheckinCall(id))
                  => \A r \in check_ins :
                         (r.id = id /\ r.user_id # reply'.user)
                             => reply'.status = 403 /\ UNCHANGED store
      ]_vars

\* the owner deleted a check-in that had earned points: the row is gone and
\* the member still has the check-in counted
C23_Witness ==
    /\ reply.status = 204
    /\ check_ins = {}
    /\ \E m \in challenge_members :
           /\ m.user_id = reply.user
           /\ m.total_checkins > 0
           /\ m.points_earned > 0
    /\ user_profiles[reply.user].total_check_ins > 0

\* ------------------------------------------------------------------ C24
\* C24: a challenge row appears with status pending, and whenever the status
\* of a challenge changes it goes from pending to active or from active to
\* completed, failed or archived.
C24_StatusTransitions ==
    [][/\ \A ch \in challenges' :
              (\A old \in challenges : old.id # ch.id) => ch.status = "pending"
       /\ \A old \in challenges, ch \in challenges' :
              (ch.id = old.id /\ ch.status # old.status)
                  => \/ old.status = "pending" /\ ch.status = "active"
                     \/ /\ old.status = "active"
                        /\ ch.status \in {"completed", "failed", "archived"}
      ]_vars

\* ------------------------------------------------------------------ C25
\* C25: in every reachable state no two challenges share an invite_code,
\* whatever the interleaving of concurrent create_challenge calls.
C25_InviteCodesUnique ==
    \A a, b \in challenges : a.invite_code = b.invite_code => a = b

\* ------------------------------------------------------------------ C26
ActiveMembersOf(c) ==
    {m \in challenge_members : m.challenge_id = c /\ m.status = "active"}

\* C26: in every reachable state the number of active members of a
\* challenge is at most its max_members, after any sequence and interleaving
\* of join_challenge (first join or rejoin) and leave_challenge.
C26_ActiveWithinMaxMembers ==
    \A ch \in challenges :
        Cardinality(ActiveMembersOf(ch.id)) <= ch.max_members

\* ------------------------------------------------------------------ C27
\* C27: whenever no request is in progress, every challenge's member_count
\* equals the number of its membership rows with status active.
C27_MemberCountIsActiveRows ==
    (\A p \in Procs : pc[p] = "idle")
        => \A ch \in challenges :
               ch.member_count = Cardinality(ActiveMembersOf(ch.id))

\* ------------------------------------------------------------------ C28
\* C28: in every reachable state there is at most one membership row per
\* (challenge, user), also when join requests of the same user run
\* concurrently.
C28_OneMembershipRow ==
    \A m, n \in challenge_members :
        (m.challenge_id = n.challenge_id /\ m.user_id = n.user_id) => m = n

\* ------------------------------------------------------------------ C29
CreatorRowsOf(c) ==
    {m \in challenge_members : m.challenge_id = c /\ m.role = "creator"}

HabitLinksOf(c) == {l.habit_id : l \in {x \in challenge_habits :
                                            x.challenge_id = c}}

\* C29: whenever no request is in progress, every challenge row has exactly
\* one membership with role creator, that membership is active, and the
\* challenge has between 1 and 4 distinct habit links, also after a
\* create_challenge whose store write failed part-way.
C29_ChallengeHasCreatorAndHabits ==
    (\A p \in Procs : pc[p] = "idle")
        => \A ch \in challenges :
               /\ Cardinality(CreatorRowsOf(ch.id)) = 1
               /\ \A m \in CreatorRowsOf(ch.id) : m.status = "active"
               /\ Cardinality(HabitLinksOf(ch.id)) \in 1 .. 4

\* ------------------------------------------------------------------ C30
\* C30: every (member, habit, calendar day) counts at most once: with
\* check-ins on the habits of EditHabits only, a member's total_checkins and
\* current_streak never exceed the number of (habit, day) pairs so far, and
\* points_earned never exceeds that number of streak-rate check-ins, also
\* when a day's check-in is deleted and created again.
C30_OneContributionPerDay ==
    \A m \in challenge_members :
        /\ m.total_checkins <= today * Cardinality(EditHabits)
        /\ m.current_streak <= today * Cardinality(EditHabits)
        /\ m.points_earned <= today * Cardinality(EditHabits) * StreakPoints

====
